---- MODULE Spec2Model ----
(***************************************************************************)
(* Model of the skills_analysis survey reshaper                            *)
(* (src/skills_analysis/devops_skills_analysis.py, process.py).            *)
(*                                                                         *)
(* Python strings are TLA+ strings (Len, \o, SubSeq, Head, Tail act on     *)
(* them character by character), Python lists are sequences, Python dicts  *)
(* are insertion-ordered sequences of [k, v] entries, and column positions *)
(* are the 0-based positions enumerate() yields; the Python value None is  *)
(* the definition None.  A call that raises is recorded with the name of   *)
(* the exception in the err field of its result.                           *)
(***************************************************************************)
EXTENDS FiniteSets, Integers, Sequences, TLC

VARIABLES
  header,              \* the header row (row 0 of the survey)
  mapping,             \* the team mapping: ordered dict category -> list of subcategories
  row,                 \* the data row handed to the row reshapers
  arg,                 \* the argument of a pure-function call
  COMMON_COL_MAPPING,  \* devops_skills_analysis.COMMON_COL_MAPPING
  CUR_COL_MAPPING,     \* devops_skills_analysis.CUR_COL_MAPPING
  FUT_COL_MAPPING,     \* devops_skills_analysis.FUT_COL_MAPPING
  FUT_COLS,            \* devops_skills_analysis.FUT_COLS
  COL_MAPPING,         \* generate_madlibs_bios.COL_MAPPING
  fs,                  \* the names of the files that exist in the output directory
  op,                  \* the operation that acted last ("" before the first)
  ret,                 \* what that operation returned or raised
  done,                \* the header functions that have returned from the header row
  pc                   \* "header": row 0 is being processed, "rows": data rows,
                       \* "call": a pure function is called, "halt": the run is over

vars == <<header, mapping, row, arg, COMMON_COL_MAPPING, CUR_COL_MAPPING,
          FUT_COL_MAPPING, FUT_COLS, COL_MAPPING, fs, op, ret, done, pc>>

tables == <<COMMON_COL_MAPPING, CUR_COL_MAPPING, FUT_COL_MAPPING, FUT_COLS, COL_MAPPING>>
inputs == <<header, mapping, row, arg>>

-----------------------------------------------------------------------------
(* Bounds of the model. *)

MaxStrLen == 5      \* longest enumerated free-text cell
MaxListLen == 3     \* longest enumerated use / learn list
MaxSkillCols == 3   \* most skill columns after the identity columns
MaxIdCols == 4      \* most columns of an identity-only header row

-----------------------------------------------------------------------------
(* Python string primitives. *)

Char(s, i) == SubSeq(s, i, i)

\* the ASCII characters str.strip() removes: str.isspace() holds for the space,
\* the controls 9 to 13 (tab, line feed, vertical tab, form feed, carriage
\* return) and the separators 28 to 31 (FS, GS, RS, US).  The vertical tab and
\* the four separators have no escape and stand in their strings as they are.
\* strip() also removes the spaces beyond ASCII (U+0085, U+00A0, U+1680, ...),
\* which the strings of this module, being ASCII, do not hold.
Whitespace ==
  {" ", "\t", "\n", "\r", "\f"} \cup {"", "", "", "", ""}

RECURSIVE lstrip(_)
lstrip(s) == IF s # "" /\ Head(s) \in Whitespace THEN lstrip(Tail(s)) ELSE s

RECURSIVE rstrip(_)
rstrip(s) ==
  IF s # "" /\ Char(s, Len(s)) \in Whitespace
    THEN rstrip(SubSeq(s, 1, Len(s) - 1))
    ELSE s

strip(s) == rstrip(lstrip(s))

Contains(s, c) == \E i \in 1..Len(s) : Char(s, i) = c

StartsWith(s, p) == Len(s) >= Len(p) /\ SubSeq(s, 1, Len(p)) = p

\* s.split(sep) for a one-character sep: the fragments between the separators
RECURSIVE SplitFrom(_, _, _, _)
SplitFrom(s, sep, i, cur) ==
  IF i > Len(s) THEN <<cur>>
  ELSE IF Char(s, i) = sep
         THEN <<cur>> \o SplitFrom(s, sep, i + 1, "")
         ELSE SplitFrom(s, sep, i + 1, cur \o Char(s, i))

split(s, sep) == SplitFrom(s, sep, 1, "")

-----------------------------------------------------------------------------
(* clean_subcategory and str_to_subcategory_list. *)

\* variant of clean_subcategory that does not strip
clean_subcategory_nostrip(subcategory) ==
  IF Contains(subcategory, "(") THEN split(subcategory, "(")[1] ELSE subcategory

clean_subcategory(subcategory) ==
  LET left == IF Contains(subcategory, "(")
                THEN split(subcategory, "(")[1]
                ELSE subcategory
  IN  strip(left)

\* variant of CleanEach that keeps the empty fragments
RECURSIVE CleanEachKeepEmpty(_)
CleanEachKeepEmpty(in_list) ==
  IF in_list = <<>> THEN <<>>
  ELSE <<clean_subcategory(Head(in_list))>> \o CleanEachKeepEmpty(Tail(in_list))

\* the loop of str_to_subcategory_list over the fragments
RECURSIVE CleanEach(_)
CleanEach(in_list) ==
  IF in_list = <<>> THEN <<>>
  ELSE IF Head(in_list) = ""
         THEN CleanEach(Tail(in_list))
         ELSE <<clean_subcategory(Head(in_list))>> \o CleanEach(Tail(in_list))

\* variant of str_to_subcategory_list that keeps the empty fragments
str_to_subcategory_list_keepempty(in_str) ==
  IF in_str # "" THEN CleanEachKeepEmpty(split(in_str, ";")) ELSE <<>>

str_to_subcategory_list(in_str) ==
  IF in_str # "" THEN CleanEach(split(in_str, ";")) ELSE <<>>

-----------------------------------------------------------------------------
(* Python values and dicts. *)

None == -1

PyInt(n) == [type |-> "int", int |-> n, str |-> ""]
PyStr(s) == [type |-> "str", int |-> 0, str |-> s]

In(li, x) == \E i \in 1..Len(li) : li[i] = x

DictHas(d, key) == \E i \in 1..Len(d) : d[i].k = key
DictGet(d, key) == d[CHOOSE i \in 1..Len(d) : d[i].k = key].v
DictSet(d, key, val) ==
  IF DictHas(d, key)
    THEN [i \in 1..Len(d) |-> IF d[i].k = key THEN [k |-> key, v |-> val] ELSE d[i]]
    ELSE Append(d, [k |-> key, v |-> val])
Max(S) == CHOOSE m \in S : \A n \in S : n <= m

-----------------------------------------------------------------------------
(* Module constants of devops_skills_analysis.py. *)

OTHER_COL == <<"Name", "Classification Level", "What team are you on?">>

SKILL_LEVEL_MAP ==
  << [k |-> "None",         v |-> PyInt(0)],
     [k |-> "Novice",       v |-> PyInt(1)],
     [k |-> "Intermediate", v |-> PyInt(2)],
     [k |-> "Advanced",     v |-> PyInt(3)],
     [k |-> "Expert",       v |-> PyInt(4)],
     [k |-> "N/A",          v |-> PyStr("N/A")] >>

-----------------------------------------------------------------------------
(* The four header patterns.  Each is anchored at both ends, "." is any   *)
(* character but a newline, a capture group is greedy, and the end anchor  *)
(* also matches before one final newline.                                  *)

SELF_PREFIX == "How would you describe your current experience or comfort level with"
TEAM_PREFIX == "Based on what you know today, what level of"
TEAM_TAIL == "skills do you think your team will need over the next 12 months?."
USE_PREFIX == "Which"
USE_TAIL == "skills would you like to use in your day-to-day work, or feel are underused?"
LEARN_PREFIX == "Are there"
LEARN_TAIL == "skills you are interested in learning or continuing to develop?"

NoMatch == [matched |-> FALSE, groups |-> <<>>]

\* the part of col an anchored pattern has to cover
RegexBody(col) ==
  IF col # "" /\ Char(col, Len(col)) = "\n" THEN SubSeq(col, 1, Len(col) - 1) ELSE col

\* re.search(self, col)
self_match(col) ==
  LET b  == RegexBody(col)
      n  == Len(SELF_PREFIX)
      ks == {k \in (n + 2)..(Len(b) - 1) : Char(b, k) = "?" /\ Char(b, k + 1) = "."}
  IN  IF StartsWith(b, SELF_PREFIX) /\ ~Contains(SubSeq(b, n + 1, Len(b)), "\n") /\ ks # {}
        THEN [matched |-> TRUE,
              groups  |-> <<SubSeq(b, n + 2, Max(ks) - 1), SubSeq(b, Max(ks) + 2, Len(b))>>]
        ELSE NoMatch

\* re.search(team, col)
team_match(col) ==
  LET b  == RegexBody(col)
      n  == Len(TEAM_PREFIX)
      t  == Len(TEAM_TAIL)
      ms == {m \in (n + 3)..(Len(b) - t + 1) : SubSeq(b, m, m + t - 1) = TEAM_TAIL}
  IN  IF StartsWith(b, TEAM_PREFIX) /\ ~Contains(SubSeq(b, n + 1, Len(b)), "\n") /\ ms # {}
        THEN [matched |-> TRUE,
              groups  |-> <<SubSeq(b, n + 2, Max(ms) - 2), SubSeq(b, Max(ms) + t, Len(b))>>]
        ELSE NoMatch

\* prefix, any character, the category group, any character, a literal tail:
\* the use and learn patterns
FutMatch(col, prefix, tail) ==
  LET b == RegexBody(col)
      n == Len(prefix)
      t == Len(tail)
  IN  IF /\ StartsWith(b, prefix)
         /\ Len(b) >= n + t + 2
         /\ SubSeq(b, Len(b) - t + 1, Len(b)) = tail
         /\ ~Contains(SubSeq(b, n + 1, Len(b)), "\n")
        THEN [matched |-> TRUE, groups |-> <<SubSeq(b, n + 2, Len(b) - t - 1)>>]
        ELSE NoMatch

use_match(col) == FutMatch(col, USE_PREFIX, USE_TAIL)
learn_match(col) == FutMatch(col, LEARN_PREFIX, LEARN_TAIL)

-----------------------------------------------------------------------------
(* Header processing. *)

\* "index" is falsy when it is 0: a name found in column 0 is not recorded
set_common_headers(common, key, index) ==
  IF ~DictHas(common, key) /\ index # 0
    THEN DictSet(common, key, index)
    ELSE common

\* {subcategory: {"SELF": None, "TEAM": None}} for the subcategories of one category
RECURSIVE CurSeed(_, _)
CurSeed(subs, d) ==
  IF subs = <<>> THEN d
  ELSE CurSeed(Tail(subs), DictSet(d, Head(subs), [SELF |-> None, TEAM |-> None]))

\* the seeding loop of set_cur_headers over mapping.keys()
RECURSIVE CurInit(_, _)
CurInit(map, cur) ==
  IF map = <<>> THEN cur
  ELSE CurInit(Tail(map), DictSet(cur, Head(map).k, CurSeed(Head(map).v, <<>>)))

\* variant of CurStore that stores under the other of SELF and TEAM
CurStoreSwapped(cur, category, subcategory, field, index) ==
  IF ~DictHas(cur, category) THEN [err |-> "KeyError", cur |-> cur]
  ELSE IF ~DictHas(DictGet(cur, category), subcategory) THEN [err |-> "KeyError", cur |-> cur]
  ELSE LET subs == DictGet(cur, category)
           cell == DictGet(subs, subcategory)
           new  == IF field = "SELF" THEN [cell EXCEPT !.TEAM = index]
                                     ELSE [cell EXCEPT !.SELF = index]
       IN  [err |-> "", cur |-> DictSet(cur, category, DictSet(subs, subcategory, new))]

\* CUR_COL_MAPPING[category][subcategory][field] = index
CurStore(cur, category, subcategory, field, index) ==
  IF ~DictHas(cur, category) THEN [err |-> "KeyError", cur |-> cur]
  ELSE IF ~DictHas(DictGet(cur, category), subcategory) THEN [err |-> "KeyError", cur |-> cur]
  ELSE LET subs == DictGet(cur, category)
           cell == DictGet(subs, subcategory)
           new  == IF field = "SELF" THEN [cell EXCEPT !.SELF = index]
                                     ELSE [cell EXCEPT !.TEAM = index]
       IN  [err |-> "", cur |-> DictSet(cur, category, DictSet(subs, subcategory, new))]

\* one header cell of set_cur_headers, at 0-based position index
CurHeaderCell(st, col, index) ==
  IF In(OTHER_COL, col)
    THEN [st EXCEPT !.common = set_common_headers(st.common, col, index)]
    ELSE
      LET sm == self_match(col)
          tm == team_match(col)
          s1 == IF sm.matched
                  THEN CurStore(st.cur, strip(sm.groups[1]),
                                clean_subcategory(sm.groups[2]), "SELF", index)
                  ELSE [err |-> "", cur |-> st.cur]
          s2 == IF s1.err = "" /\ tm.matched
                  THEN CurStore(s1.cur, strip(tm.groups[1]),
                                clean_subcategory(tm.groups[2]), "TEAM", index)
                  ELSE s1
      IN  [st EXCEPT !.cur = s2.cur, !.err = s2.err]

\* the loop over enumerate(row); a raised error ends it
RECURSIVE CurHeaderLoop(_, _, _)
CurHeaderLoop(st, hrow, index) ==
  IF index >= Len(hrow) \/ st.err # "" THEN st
  ELSE CurHeaderLoop(CurHeaderCell(st, hrow[index + 1], index), hrow, index + 1)

\* set_cur_headers(row, mapping) on the globals cur = CUR_COL_MAPPING and
\* common = COMMON_COL_MAPPING: the globals afterwards and the error raised
set_cur_headers(hrow, map, cur, common) ==
  CurHeaderLoop([cur |-> CurInit(map, cur), common |-> common, err |-> ""], hrow, 0)

\* {subcategory: {"USE": 0, "LEARN": 0}} for the subcategories of one category
RECURSIVE FutSeed(_, _)
FutSeed(subs, d) ==
  IF subs = <<>> THEN d
  ELSE FutSeed(Tail(subs), DictSet(d, Head(subs), [USE |-> 0, LEARN |-> 0]))

\* the seeding loop of set_fut_headers over mapping.keys()
RECURSIVE FutInit(_, _)
FutInit(map, st) ==
  IF map = <<>> THEN st
  ELSE FutInit(Tail(map),
               [st EXCEPT !.fut  = DictSet(st.fut, Head(map).k, [USE |-> None, LEARN |-> None]),
                          !.cols = DictSet(st.cols, Head(map).k, FutSeed(Head(map).v, <<>>))])

\* FUT_COL_MAPPING[category][field] = index
FutStore(fut, category, field, index) ==
  IF ~DictHas(fut, category) THEN [err |-> "KeyError", fut |-> fut]
  ELSE LET cell == DictGet(fut, category)
           new  == IF field = "USE" THEN [cell EXCEPT !.USE = index]
                                    ELSE [cell EXCEPT !.LEARN = index]
       IN  [err |-> "", fut |-> DictSet(fut, category, new)]

\* one header cell of set_fut_headers, at 0-based position index
FutHeaderCell(st, col, index) ==
  IF In(OTHER_COL, col)
    THEN [st EXCEPT !.common = set_common_headers(st.common, col, index)]
    ELSE
      LET um == use_match(col)
          lm == learn_match(col)
          s1 == IF um.matched
                  THEN FutStore(st.fut, strip(um.groups[1]), "USE", index)
                  ELSE [err |-> "", fut |-> st.fut]
          s2 == IF s1.err = "" /\ lm.matched
                  THEN FutStore(s1.fut, strip(lm.groups[1]), "LEARN", index)
                  ELSE s1
      IN  [st EXCEPT !.fut = s2.fut, !.err = s2.err]

RECURSIVE FutHeaderLoop(_, _, _)
FutHeaderLoop(st, hrow, index) ==
  IF index >= Len(hrow) \/ st.err # "" THEN st
  ELSE FutHeaderLoop(FutHeaderCell(st, hrow[index + 1], index), hrow, index + 1)

\* set_fut_headers(row, mapping) on the globals FUT_COL_MAPPING, FUT_COLS and
\* COMMON_COL_MAPPING
set_fut_headers(hrow, map, fut, cols, common) ==
  FutHeaderLoop(FutInit(map, [fut |-> fut, cols |-> cols, common |-> common, err |-> ""]),
                hrow, 0)

-----------------------------------------------------------------------------
(* Row reshaping. *)

\* variant of RowGet that reads the last cell of the row where there is no index
RowGetNoneIsLast(r, index) ==
  IF index = None
    THEN IF r = <<>> THEN [err |-> "IndexError", val |-> ""]
                     ELSE [err |-> "", val |-> r[Len(r)]]
  ELSE IF index >= Len(r) THEN [err |-> "IndexError", val |-> ""]
  ELSE [err |-> "", val |-> r[index + 1]]

\* row[index]: None is no index, a position past the end is out of range
RowGet(r, index) ==
  IF index = None THEN [err |-> "TypeError", val |-> ""]
  ELSE IF index >= Len(r) THEN [err |-> "IndexError", val |-> ""]
  ELSE [err |-> "", val |-> r[index + 1]]

\* row[COMMON_COL_MAPPING[key]]
CommonGet(r, common, key) ==
  IF ~DictHas(common, key) THEN [err |-> "KeyError", val |-> ""]
  ELSE RowGet(r, DictGet(common, key))

\* the three identity fields every output record starts from
CommonFields(r, common) ==
  LET n == CommonGet(r, common, "Name")
      c == CommonGet(r, common, "Classification Level")
      t == CommonGet(r, common, "What team are you on?")
  IN  [err  |-> IF n.err # "" THEN n.err ELSE IF c.err # "" THEN c.err ELSE t.err,
       Name |-> n.val, Classification |-> c.val, Team |-> t.val]

\* variant of LevelOf that gives an unknown text the value 0
LevelOfDefaulting(cell) ==
  LET desc == IF cell = "" THEN "N/A" ELSE cell
  IN  IF DictHas(SKILL_LEVEL_MAP, desc)
        THEN [err |-> "", desc |-> desc, value |-> DictGet(SKILL_LEVEL_MAP, desc)]
        ELSE [err |-> "", desc |-> desc, value |-> PyInt(0)]

\* variant of LevelOf that reads an empty cell as the level None
LevelOfEmptyIsNone(cell) ==
  LET desc == IF cell = "" THEN "None" ELSE cell
  IN  IF DictHas(SKILL_LEVEL_MAP, desc)
        THEN [err |-> "", desc |-> desc, value |-> DictGet(SKILL_LEVEL_MAP, desc)]
        ELSE [err |-> "KeyError", desc |-> desc, value |-> PyInt(0)]

\* an empty cell reads as "N/A"; the description is looked up in SKILL_LEVEL_MAP
LevelOf(cell) ==
  LET desc == IF cell = "" THEN "N/A" ELSE cell
  IN  IF DictHas(SKILL_LEVEL_MAP, desc)
        THEN [err |-> "", desc |-> desc, value |-> DictGet(SKILL_LEVEL_MAP, desc)]
        ELSE [err |-> "KeyError", desc |-> desc, value |-> PyInt(0)]

\* the body of the inner loop of row_to_cur_skills for one (category, subcategory)
CurRecord(r, skill_dict, cur, category, subcategory) ==
  LET pos  == DictGet(DictGet(cur, category), subcategory)
      sc   == RowGet(r, pos.SELF)
      self == IF sc.err # "" THEN [err |-> sc.err, desc |-> "", value |-> PyInt(0)]
                             ELSE LevelOf(sc.val)
      tc   == IF self.err # "" THEN [err |-> self.err, val |-> ""] ELSE RowGet(r, pos.TEAM)
      team == IF tc.err # "" THEN [err |-> tc.err, desc |-> "", value |-> PyInt(0)]
                             ELSE LevelOf(tc.val)
  IN  [err |-> team.err,
       rec |-> [Name |-> skill_dict.Name, Classification |-> skill_dict.Classification,
                Team |-> skill_dict.Team, Category |-> category, SubCategory |-> subcategory,
                SkillLevelValue |-> self.value, SkillLevelDesc |-> self.desc,
                TeamNeedValue |-> team.value, TeamNeedDesc |-> team.desc]]

\* <<category, subcategory>> for every subcategory key of one category
SubPairs(category, subs) == [i \in 1..Len(subs) |-> <<category, subs[i].k>>]

\* variant of CurPairs that keeps the categories named like identity columns
RECURSIVE CurPairsAll(_)
CurPairsAll(cur) ==
  IF cur = <<>> THEN <<>>
  ELSE SubPairs(Head(cur).k, Head(cur).v) \o CurPairsAll(Tail(cur))

\* the (category, subcategory) pairs the two loops of row_to_cur_skills visit,
\* in order: a category named like an identity column is skipped
RECURSIVE CurPairs(_)
CurPairs(cur) ==
  IF cur = <<>> THEN <<>>
  ELSE IF In(OTHER_COL, Head(cur).k)
         THEN CurPairs(Tail(cur))
         ELSE SubPairs(Head(cur).k, Head(cur).v) \o CurPairs(Tail(cur))

RECURSIVE CurRows(_, _, _, _, _)
CurRows(r, skill_dict, cur, pairs, acc) ==
  IF pairs = <<>> THEN [err |-> "", rows |-> acc]
  ELSE LET one == CurRecord(r, skill_dict, cur, Head(pairs)[1], Head(pairs)[2])
       IN  IF one.err # "" THEN [err |-> one.err, rows |-> <<>>]
           ELSE CurRows(r, skill_dict, cur, Tail(pairs), Append(acc, one.rec))

\* row_to_cur_skills(row) with the globals it reads: the list it returns, or the
\* error it raises
row_to_cur_skills(r, common, cur) ==
  LET skill_dict == CommonFields(r, common)
  IN  IF skill_dict.err # "" THEN [err |-> skill_dict.err, rows |-> <<>>]
      ELSE CurRows(r, skill_dict, cur, CurPairs(cur), <<>>)

\* variant of UseLoop that never sets Learn
RECURSIVE UseLoopLearnZero(_, _, _, _)
UseLoopLearnZero(todo, learn_li, temp_row, st) ==
  IF todo = <<>> THEN st
  ELSE IF In(st.added, Head(todo)) THEN UseLoopLearnZero(Tail(todo), learn_li, temp_row, st)
  ELSE LET cur_row == [temp_row EXCEPT !.SubCategory = Head(todo), !.Use = 1, !.Learn = 0]
       IN  UseLoopLearnZero(Tail(todo), learn_li, temp_row,
                   [rows |-> Append(st.rows, cur_row), added |-> Append(st.added, Head(todo))])

\* the first loop of create_new_rows: one record per first occurrence in use_li
RECURSIVE UseLoop(_, _, _, _)
UseLoop(todo, learn_li, temp_row, st) ==
  IF todo = <<>> THEN st
  ELSE IF In(st.added, Head(todo)) THEN UseLoop(Tail(todo), learn_li, temp_row, st)
  ELSE LET cur_row == [temp_row EXCEPT !.SubCategory = Head(todo), !.Use = 1,
                                       !.Learn = IF In(learn_li, Head(todo)) THEN 1 ELSE 0]
       IN  UseLoop(Tail(todo), learn_li, temp_row,
                   [rows |-> Append(st.rows, cur_row), added |-> Append(st.added, Head(todo))])

\* the second loop: the subcategories of learn_li not added yet
RECURSIVE LearnLoop(_, _, _, _)
LearnLoop(todo, use_li, temp_row, st) ==
  IF todo = <<>> THEN st
  ELSE IF In(st.added, Head(todo)) THEN LearnLoop(Tail(todo), use_li, temp_row, st)
  ELSE LET cur_row == [temp_row EXCEPT !.SubCategory = Head(todo), !.Learn = 1,
                                       !.Use = IF In(use_li, Head(todo)) THEN 1 ELSE 0]
       IN  LearnLoop(Tail(todo), use_li, temp_row,
                     [rows |-> Append(st.rows, cur_row), added |-> Append(st.added, Head(todo))])

\* helper of the variant below: one record per list element
RECURSIVE AppendAll(_, _, _)
AppendAll(todo, temp_row, flag) ==
  IF todo = <<>> THEN <<>>
  ELSE <<[temp_row EXCEPT !.SubCategory = Head(todo), !.Use = flag, !.Learn = 1 - flag]>>
       \o AppendAll(Tail(todo), temp_row, flag)

\* variant of create_new_rows without the lookup of existing records
create_new_rows_nodedup(use_li, learn_li, temp_row) ==
  AppendAll(use_li, temp_row, 1) \o AppendAll(learn_li, temp_row, 0)

\* variant of create_new_rows that goes through the learn list first
create_new_rows_learnfirst(use_li, learn_li, temp_row) ==
  LET afterLearn == LearnLoop(learn_li, use_li, temp_row, [rows |-> <<>>, added |-> <<>>])
  IN  UseLoop(use_li, learn_li, temp_row, afterLearn).rows

create_new_rows(use_li, learn_li, temp_row) ==
  LET afterUse == UseLoop(use_li, learn_li, temp_row, [rows |-> <<>>, added |-> <<>>])
  IN  LearnLoop(learn_li, use_li, temp_row, afterUse).rows

\* the body of the loop of row_to_future_skills for one category
FutCategory(r, skill_dict, fut, category) ==
  LET uc == RowGet(r, DictGet(fut, category).USE)
      lc == IF uc.err # "" THEN uc ELSE RowGet(r, DictGet(fut, category).LEARN)
      cur_row == [Name |-> skill_dict.Name, Classification |-> skill_dict.Classification,
                  Team |-> skill_dict.Team, Category |-> category,
                  SubCategory |-> None, Use |-> None, Learn |-> None]
  IN  IF lc.err # "" THEN [err |-> lc.err, rows |-> <<>>]
      ELSE [err |-> "",
            rows |-> create_new_rows(str_to_subcategory_list(uc.val),
                                     str_to_subcategory_list(lc.val), cur_row)]

\* the loop over FUT_COLS.items(); FUT_COL_MAPPING[category] raises KeyError
\* for a category set_fut_headers did not seed
RECURSIVE FutRows(_, _, _, _, _)
FutRows(r, skill_dict, fut, cols, acc) ==
  IF cols = <<>> THEN [err |-> "", rows |-> acc]
  ELSE IF ~DictHas(fut, Head(cols).k) THEN [err |-> "KeyError", rows |-> <<>>]
  ELSE LET one == FutCategory(r, skill_dict, fut, Head(cols).k)
       IN  IF one.err # "" THEN [err |-> one.err, rows |-> <<>>]
           ELSE FutRows(r, skill_dict, fut, Tail(cols), acc \o one.rows)

\* row_to_future_skills(row) with the globals it reads
row_to_future_skills(r, common, fut, cols) ==
  LET skill_dict == CommonFields(r, common)
  IN  IF skill_dict.err # "" THEN [err |-> skill_dict.err, rows |-> <<>>]
      ELSE FutRows(r, skill_dict, fut, cols, <<>>)

-----------------------------------------------------------------------------
(* generate_madlibs_bios.py.  The module is ASCII: the typographic           *)
(* apostrophe (U+2019) of two column names is written as the apostrophe.    *)

COLUMNS ==
  << "Name",
     "Your Name",
     "What team are you on?",
     "Adjective (how would you describe yourself?)",
     "Role/Title (Your role or what best describes your work)",
     "Tool/System/Approach (What do you love working with?)",
     "Skill or Strength (What's something you're great at?)",
     "Biggest Challenge or Growth Area (What do you find tricky?)",
     "Notable Experience or Achievement (Something cool you've done)",
     "Favorite Part of Work (What makes your job fun, meaningful, or energizing)" >>

\* TEMPLATE as str.format reads it: each part is a literal text followed by a
\* replacement field ("" for no field after the last literal)
TEMPLATE ==
  << [lit |-> "Hi, my name is ", field |-> COLUMNS[2]],
     [lit |-> ", and I am on the ", field |-> COLUMNS[3]],
     [lit |-> " Team. and I am a ", field |-> COLUMNS[4]],
     [lit |-> " ", field |-> COLUMNS[5]],
     [lit |-> " who loves working with ", field |-> COLUMNS[6]],
     [lit |-> ". My superpower is ", field |-> COLUMNS[7]],
     [lit |-> ", and my biggest challenge is ", field |-> COLUMNS[8]],
     [lit |-> ". In the past, I have ", field |-> COLUMNS[9]],
     [lit |-> ", and my favorite part of my work is ", field |-> COLUMNS[10]],
     [lit |-> "!", field |-> ""] >>

\* list.index(x): the 0-based position of the first element equal to x
ListIndex(li, x) ==
  (CHOOSE i \in 1..Len(li) : li[i] = x /\ \A j \in 1..(i - 1) : li[j] # x) - 1

\* the loop of map_cols over COLUMNS; st.missing collects the names printed
\* after "MISSING - "
RECURSIVE MapColsLoop(_, _, _)
MapColsLoop(st, cols, header_row) ==
  IF cols = <<>> THEN st
  ELSE LET col == Head(cols)
       IN  IF In(header_row, col)
             THEN MapColsLoop([st EXCEPT !.colmap = DictSet(@, ListIndex(header_row, col), col)],
                              Tail(cols), header_row)
             ELSE MapColsLoop([st EXCEPT !.missing = Append(@, col)], Tail(cols), header_row)

\* map_cols(header_row) on the table colmap: never raises
map_cols(header_row, colmap) ==
  MapColsLoop([err |-> "", colmap |-> colmap, missing |-> <<>>], COLUMNS, header_row)

\* the loop of row_to_madlib over COL_MAPPING.items()
RECURSIVE MadLibsData(_, _, _)
MadLibsData(st, items, r) ==
  IF items = <<>> \/ st.err # "" THEN st
  ELSE LET data == RowGet(r, Head(items).k)
           header_ == Head(items).v
       IN  IF data.err # "" THEN [st EXCEPT !.err = data.err]
           ELSE MadLibsData([err |-> "",
                             mad_libs_data |-> DictSet(st.mad_libs_data, header_, data.val),
                             full_name |-> IF header_ = "Name" THEN data.val ELSE st.full_name],
                            Tail(items), r)

\* variant of Format that puts nothing in the place of a field without a value
RECURSIVE FormatBlank(_, _, _)
FormatBlank(parts, kwargs, acc) ==
  IF parts = <<>> THEN [err |-> "", val |-> acc]
  ELSE LET part == Head(parts)
       IN  IF part.field = "" \/ ~DictHas(kwargs, part.field)
             THEN FormatBlank(Tail(parts), kwargs, acc \o part.lit)
             ELSE FormatBlank(Tail(parts), kwargs,
                              acc \o part.lit \o DictGet(kwargs, part.field))

\* str.format(**kwargs) on the parts of a template: a field that is no key of
\* kwargs raises KeyError
RECURSIVE Format(_, _, _)
Format(parts, kwargs, acc) ==
  IF parts = <<>> THEN [err |-> "", val |-> acc]
  ELSE LET part == Head(parts)
       IN  IF part.field = "" THEN Format(Tail(parts), kwargs, acc \o part.lit)
           ELSE IF ~DictHas(kwargs, part.field) THEN [err |-> "KeyError", val |-> ""]
           ELSE Format(Tail(parts), kwargs, acc \o part.lit \o DictGet(kwargs, part.field))

\* row_to_madlib(row) with COL_MAPPING = colmap
row_to_madlib(r, colmap) ==
  LET st == MadLibsData([err |-> "", mad_libs_data |-> <<>>, full_name |-> ""], colmap, r)
      filled_mad_libs == Format(TEMPLATE, st.mad_libs_data, "")
  IN  IF st.err # "" THEN [err |-> st.err, rows |-> <<>>]
      ELSE IF filled_mad_libs.err # "" THEN [err |-> filled_mad_libs.err, rows |-> <<>>]
      ELSE [err |-> "", rows |-> <<[FullName |-> st.full_name, MadLibs |-> filled_mad_libs.val]>>]

\* value.get(col, default) on a row of a frame with the columns `columns`
SeriesGet(columns, value, col, default) ==
  IF In(columns, col) THEN value[ListIndex(columns, col) + 1] ELSE default

\* the loop of create over COLUMNS: a column the frame lacks reads "N/A"
RECURSIVE CreateData(_, _, _, _)
CreateData(cols, columns, value, mad_libs_data) ==
  IF cols = <<>> THEN mad_libs_data
  ELSE CreateData(Tail(cols), columns, value,
                  DictSet(mad_libs_data, Head(cols),
                          SeriesGet(columns, value, Head(cols), "N/A")))

\* the record create appends for one row of the frame: every placeholder is a
\* name of COLUMNS, so the template is always filled
CreateRecord(columns, value) ==
  [FullName |-> SeriesGet(columns, value, "Name", "N/A"),
   MadLibs  |-> Format(TEMPLATE, CreateData(COLUMNS, columns, value, <<>>), "").val]

\* create(df, output_csv_file) for a frame of text cells under distinct column
\* names: the records it writes, and the files afterwards.  to_csv creates
\* output_csv_file or overwrites it; no other name is tried.
create(columns, df_rows, output_csv_file, files) ==
  [err   |-> "",
   rows  |-> [i \in 1..Len(df_rows) |-> CreateRecord(columns, df_rows[i])],
   files |-> files \cup {output_csv_file}]

-----------------------------------------------------------------------------
(* process() of process.py. *)

PROCESSES == <<"mad_libs", "current_skills", "future_skills">>

\* "total_rows = len()": len called without an argument raises TypeError
len_noarg == [err |-> "TypeError", val |-> 0]

\* the module-level tables as one record
Globals ==
  [common |-> COMMON_COL_MAPPING, cur |-> CUR_COL_MAPPING, fut |-> FUT_COL_MAPPING,
   cols |-> FUT_COLS, colmap |-> COL_MAPPING]

\* "mad_libs.append(new_mad_lib)", or the error row_to_madlib raised
MadLibsAppend(st, new_mad_lib) ==
  IF new_mad_lib.err # "" THEN [st EXCEPT !.err = new_mad_lib.err]
  ELSE [st EXCEPT !.mad_libs = @ \o new_mad_lib.rows]

\* the mad-libs block of the loop body of process() on row number index
ProcessMadLibs(st, r, index, processes) ==
  IF st.err # "" \/ ~In(processes, PROCESSES[1]) THEN st
  ELSE IF index = 0
    THEN [st EXCEPT !.g.colmap = map_cols(r, st.g.colmap).colmap]
    ELSE MadLibsAppend(st, row_to_madlib(r, st.g.colmap))

\* the tables after set_cur_headers ended as h
CurHeadersSet(st, h) == [st EXCEPT !.err = h.err, !.g.cur = h.cur, !.g.common = h.common]

\* "cur_skills.extend(new_cur_skills)", or the error row_to_cur_skills raised
CurSkillsExtend(st, new_cur_skills) ==
  IF new_cur_skills.err # "" THEN [st EXCEPT !.err = new_cur_skills.err]
  ELSE [st EXCEPT !.cur_skills = @ \o new_cur_skills.rows]

\* the current-skills block
ProcessCurSkills(st, r, index, processes, map) ==
  IF st.err # "" \/ ~In(processes, PROCESSES[2]) THEN st
  ELSE IF index = 0
    THEN CurHeadersSet(st, set_cur_headers(r, map, st.g.cur, st.g.common))
    ELSE CurSkillsExtend(st, row_to_cur_skills(r, st.g.common, st.g.cur))

\* the tables after set_fut_headers ended as h
FutHeadersSet(st, h) ==
  [st EXCEPT !.err = h.err, !.g.fut = h.fut, !.g.cols = h.cols, !.g.common = h.common]

\* "fut_skills.extend(future_skills)", or the error row_to_future_skills raised
FutSkillsExtend(st, future_skills) ==
  IF future_skills.err # "" THEN [st EXCEPT !.err = future_skills.err]
  ELSE [st EXCEPT !.fut_skills = @ \o future_skills.rows]

\* the future-skills block
ProcessFutSkills(st, r, index, processes, map) ==
  IF st.err # "" \/ ~In(processes, PROCESSES[3]) THEN st
  ELSE IF index = 0
    THEN FutHeadersSet(st, set_fut_headers(r, map, st.g.fut, st.g.cols, st.g.common))
    ELSE FutSkillsExtend(st, row_to_future_skills(r, st.g.common, st.g.fut, st.g.cols))

\* "for index, row in enumerate(in_rows)": a row is a list and never equals "",
\* so no row is skipped; the three blocks run in turn on every row, and an
\* error of a block ends the loop
RECURSIVE ProcessLoop(_, _, _, _, _)
ProcessLoop(st, todo, index, processes, map) ==
  IF todo = <<>> \/ st.err # "" THEN st
  ELSE ProcessLoop(
         ProcessFutSkills(
           ProcessCurSkills(
             ProcessMadLibs(st, Head(todo), index, processes),
             Head(todo), index, processes, map),
           Head(todo), index, processes, map),
         Tail(todo), index + 1, processes, map)

\* "return mad_libs, cur_skills, fut_skills" after the loop ended as end
ProcessReturn(end) ==
  IF end.err # "" THEN [err |-> end.err, rows |-> <<>>, g |-> end.g]
  ELSE [err |-> "", rows |-> <<end.mad_libs, end.cur_skills, end.fut_skills>>, g |-> end.g]

\* process(logger, processes, in_rows, mapping), started with the tables g:
\* the statement before the loop over in_rows raises for every input, so no
\* row is reshaped, no table is written and nothing is returned.  rows is the
\* returned tuple (mad_libs, cur_skills, fut_skills), empty when it raises.
process_from(g, processes, in_rows, map) ==
  IF len_noarg.err # "" THEN [err |-> len_noarg.err, rows |-> <<>>, g |-> g]
  ELSE IF in_rows = <<>> THEN [err |-> "UnboundLocalError", rows |-> <<>>, g |-> g]
  ELSE ProcessReturn(ProcessLoop([err |-> "", g |-> g, mad_libs |-> <<>>, cur_skills |-> <<>>,
                                  fut_skills |-> <<>>],
                                 in_rows, 0, processes, map))

\* process() as what it returns or raises
process(processes, in_rows, map) ==
  LET r == process_from(Globals, processes, in_rows, map)
  IN  [err |-> r.err, rows |-> r.rows]

-----------------------------------------------------------------------------
(* The run configuration: check_requirements, parse_config,                  *)
(* get_team_mapping and load_config_values of process.py.  A call of         *)
(* utilities.exit_with_code_message ends the run: err is "SystemExit".       *)

CONFIG_PATH == "./config.json"

\* utilities.check_file_exists on the files files
check_file_exists(files, file_path) == file_path \in files

\* the content of a file as json.load sees it: the object of a JSON text, or
\* a text that does not decode
Json(obj) == [decodes |-> TRUE, obj |-> obj]
Undecodable == [decodes |-> FALSE, obj |-> <<>>]

\* the names of check_requirements' missing_elements, in its order
RECURSIVE MissingKeys(_, _, _)
MissingKeys(keys, d, prefix) ==
  IF keys = <<>> THEN <<>>
  ELSE (IF DictHas(d, Head(keys)) THEN <<>> ELSE <<prefix \o Head(keys)>>)
       \o MissingKeys(Tail(keys), d, prefix)

\* check_requirements(logger, conf): 1 when nothing is missing, 0 otherwise;
\* conf["input"] raises KeyError when conf has no "input"
check_requirements(conf) ==
  LET required_keys == <<"input", "processes">>
      required_inputs == <<"csv_file", "mapping_file", "team_name">>
  IN  IF ~DictHas(conf, "input") THEN [err |-> "KeyError", val |-> 0]
      ELSE LET missing_elements ==
                 MissingKeys(required_keys, conf, "")
                   \o MissingKeys(required_inputs, DictGet(conf, "input"), "input: ")
           IN  [err |-> "", val |-> IF missing_elements # <<>> THEN 0 ELSE 1]

\* parse_config(config_file, logger) where the config file holds text
parse_config(files, config_file, text) ==
  IF ~check_file_exists(files, config_file) THEN [err |-> "SystemExit", val |-> <<>>]
  ELSE IF ~text.decodes THEN [err |-> "SystemExit", val |-> <<>>]
  ELSE LET config == text.obj
           config_check == check_requirements(config)
       IN  IF config_check.err # "" THEN [err |-> config_check.err, val |-> <<>>]
           ELSE IF config = <<>> \/ config_check.val = 0
             THEN [err |-> "SystemExit", val |-> <<>>]
           ELSE [err |-> "", val |-> config]

\* get_team_mapping(logger, config_data) where the mapping file holds map_info
get_team_mapping(files, config_data, map_info) ==
  LET team_name == DictGet(DictGet(config_data, "input"), "team_name")
      mapping_file == DictGet(DictGet(config_data, "input"), "mapping_file")
  IN  IF ~check_file_exists(files, mapping_file) THEN [err |-> "SystemExit", val |-> <<>>]
      ELSE IF ~map_info.decodes THEN [err |-> "SystemExit", val |-> <<>>]
      ELSE IF ~DictHas(map_info.obj, team_name) \/ DictGet(map_info.obj, team_name) = <<>>
        THEN [err |-> "SystemExit", val |-> <<>>]
      ELSE [err |-> "", val |-> DictGet(map_info.obj, team_name)]

\* load_config_values(logger, config_data): (input_file, team_mapping, processes);
\* the team_mapping None of a mad-libs-only run is the empty mapping here
load_config_values(files, config_data, map_info) ==
  LET processes == IF DictHas(config_data, "processes")
                     THEN DictGet(config_data, "processes")
                     ELSE PROCESSES
      input_file == DictGet(DictGet(config_data, "input"), "csv_file")
      team_mapping == get_team_mapping(files, config_data, map_info)
      failed == [err |-> "SystemExit", input_file |-> "", team_mapping |-> <<>>,
                 processes |-> <<>>]
  IN  IF ~check_file_exists(files, input_file) THEN failed
      ELSE IF In(processes, PROCESSES[2]) \/ In(processes, PROCESSES[3])
        THEN IF team_mapping.err # "" THEN failed
             ELSE [err |-> "", input_file |-> input_file,
                   team_mapping |-> team_mapping.val, processes |-> processes]
      ELSE [err |-> "", input_file |-> input_file, team_mapping |-> <<>>,
            processes |-> processes]

-----------------------------------------------------------------------------
(* Writing the output files: create_output and output_failed of              *)
(* utilities.py, write_files of process.py.                                  *)

\* "version < 100": the loop of create_output stops renaming at this version
VERSION_LIMIT == 100

\* s.split(sep)[0]: s up to its first sep, the whole of s when it holds none
SplitFirst(s, sep) ==
  LET at == {i \in 1..Len(s) : Char(s, i) = sep}
  IN  IF at = {} THEN s
      ELSE SubSeq(s, 1, (CHOOSE i \in at : \A j \in at : i <= j) - 1)

\* f"{filename.split('.')[0]}_{version}.csv"
NextName(filename, version) == SplitFirst(filename, ".") \o "_" \o ToString(version) \o ".csv"

\* the while loop of create_output: the name and the version it ends with
RECURSIVE FindName(_, _, _)
FindName(files, filename, version) ==
  IF check_file_exists(files, filename) /\ version < VERSION_LIMIT
    THEN FindName(files, NextName(filename, version), version + 1)
    ELSE [filename |-> filename, version |-> version]

\* the longest file name the file system takes (NAME_MAX): a longer name
\* does not exist for os.path.exists, and open() raises OSError on it
NAME_MAX == 255

\* create_output(data, filename) in a directory that holds files: failed is
\* the return value 0; open() creates the file before data[0] is read, so
\* empty data leaves an empty file and raises IndexError
create_output(files, data, filename) ==
  LET found == FindName(files, filename, 1)
  IN  IF found.version >= VERSION_LIMIT
        THEN [err |-> "", failed |-> TRUE, filename |-> "", files |-> files]
      ELSE IF Len(found.filename) > NAME_MAX
        THEN [err |-> "OSError", failed |-> FALSE, filename |-> "", files |-> files]
      ELSE IF data = <<>>
        THEN [err |-> "IndexError", failed |-> FALSE, filename |-> "",
              files |-> files \cup {found.filename}]
      ELSE [err |-> "", failed |-> FALSE, filename |-> found.filename,
            files |-> files \cup {found.filename}]

\* output_failed(log, process): two warnings
output_failed(log, process_name) ==
  log \o << "Unable to create output file for " \o process_name,
            "Please ensure there are less than 100 versions for this file." >>

\* one of the three blocks of write_files, for the process number k (1-based)
WriteBlock(st, outputs, team_name, k) ==
  IF st.err # "" \/ outputs[k] = <<>> THEN st
  ELSE LET base_name == PROCESSES[k] \o "_" \o team_name \o ".csv"
           file_name == create_output(st.files, outputs[k], base_name)
       IN  IF file_name.err # ""
             THEN [st EXCEPT !.err = file_name.err, !.files = file_name.files]
           ELSE IF file_name.failed
             THEN [st EXCEPT !.warnings = output_failed(@, PROCESSES[k])]
           ELSE [st EXCEPT !.files = file_name.files,
                           !.written = Append(@, [process |-> PROCESSES[k],
                                                  file |-> file_name.filename])]

\* write_files(log, files, team_name) on the tuple outputs of the three lists
write_files(files, outputs, team_name) ==
  LET start == [err |-> "", files |-> files, written |-> <<>>, warnings |-> <<>>]
  IN  WriteBlock(WriteBlock(WriteBlock(start, outputs, team_name, 1),
                            outputs, team_name, 2),
                 outputs, team_name, 3)

-----------------------------------------------------------------------------
(* The inputs the model enumerates. *)

RECURSIVE SeqsUpTo(_, _)
SeqsUpTo(S, n) ==
  IF n = 0 THEN {<<>>}
  ELSE LET shorter == SeqsUpTo(S, n - 1)
       IN  shorter \cup {Append(q, x) : q \in shorter, x \in S}

RECURSIVE StrsUpTo(_, _)
StrsUpTo(S, n) ==
  IF n = 0 THEN {""}
  ELSE LET shorter == StrsUpTo(S, n - 1)
       IN  shorter \cup {q \o x : q \in shorter, x \in S}

Entry(key, val) == [k |-> key, v |-> val]

SelfHeader(sep, category, subcategory) ==
  SELF_PREFIX \o sep \o category \o "?." \o subcategory
TeamHeader(sep, category, subcategory) ==
  TEAM_PREFIX \o sep \o category \o sep \o TEAM_TAIL \o subcategory
UseHeader(category) == USE_PREFIX \o " " \o category \o " " \o USE_TAIL
LearnHeader(category) == LEARN_PREFIX \o " " \o category \o " " \o LEARN_TAIL

IdPool == {"ID", "Name", "Classification Level", "What team are you on?"}

\* identity columns of a survey export, and one that starts with the Name column
IdParts == { <<"ID", "Name", "Classification Level", "What team are you on?">>,
             <<"Name", "Classification Level", "What team are you on?">> }

CurPool == { SelfHeader(" ", "Cloud", "AWS (examples: EC2, S3)"),
             TeamHeader(" ", "Cloud", "AWS"),
             SelfHeader("x", " Cloud ", " AWS"),
             SelfHeader(" ", "Cloud", "GCP"),
             SelfHeader(" ", "Name", "AWS"),
             "Email" }

CurMappings == { <<Entry("Cloud", <<"AWS">>)>>,
                 <<Entry("Cloud", <<"AWS", "GCP", "AWS">>)>>,
                 <<Entry("Name", <<"AWS">>)>>,
                 <<Entry("Cloud", <<"AWS">>), Entry("Name", <<"AWS">>)>> }

FutPool == { UseHeader("Cloud"), LearnHeader("Cloud"),
             UseHeader("Ops"), LearnHeader("Ops"),
             LearnHeader("Zed"), "Email" }

FutMappings == { <<Entry("Cloud", <<"AWS">>)>>,
                 <<Entry("Cloud", <<"AWS">>), Entry("Ops", <<>>)>> }

Levels == {"", "Expert", "Guru"}

FreeTexts == {"", "AWS (EC2); Terraform;", "GCP;AWS;GCP"}

IdValue(col) ==
  CASE col = "Name" -> "Ann"
    [] col = "Classification Level" -> "Band 3"
    [] col = "What team are you on?" -> "Platform"
    [] OTHER -> "7"

\* the rows aligned with header row hrow: an identity column holds the
\* respondent's identity, any other column a cell of pool
RECURSIVE AlignedRows(_, _)
AlignedRows(hrow, pool) ==
  IF hrow = <<>> THEN {<<>>}
  ELSE LET cells == IF Head(hrow) \in IdPool THEN {IdValue(Head(hrow))} ELSE pool
       IN  {<<c>> \o r : c \in cells, r \in AlignedRows(Tail(hrow), pool)}

\* the data rows of a survey with header row hrow: aligned rows, and rows that
\* lack the last cell
DataRows(hrow, pool) ==
  AlignedRows(hrow, pool) \cup {SubSeq(r, 1, Len(r) - 1) : r \in AlignedRows(hrow, pool)}

Names == {"AWS", "GCP", ""}

ParseAlphabet == {"a", " ", "(", ")", ";"}

\* the sub-dict of the entries of d whose key is in keys
RECURSIVE Restrict(_, _)
Restrict(d, keys) ==
  IF d = <<>> THEN <<>>
  ELSE (IF Head(d).k \in keys THEN <<Head(d)>> ELSE <<>>) \o Restrict(Tail(d), keys)

Teams == {"Platform", "Other"}

\* "input" sections: any of the three keys may be missing
InputSections ==
  { Restrict(<<Entry("csv_file", "survey.csv"), Entry("mapping_file", "teams.json"),
               Entry("team_name", t)>>, keys) :
      t \in Teams, keys \in SUBSET {"csv_file", "mapping_file", "team_name"} }

ProcessLists == {PROCESSES, <<"mad_libs">>, <<"current_skills">>, <<>>}

\* run configurations: with or without "input", with or without "processes"
Configs ==
  { i \o q : i \in {<<>>} \cup {<<Entry("input", x)>> : x \in InputSections},
             q \in {<<>>} \cup {<<Entry("processes", x)>> : x \in ProcessLists} }

\* contents of the mapping file
MapInfos == { Json(<<Entry("Platform", <<Entry("Cloud", <<"AWS">>)>>)>>),
              Json(<<Entry("Platform", <<>>)>>),
              Undecodable }

\* the output file name write_files builds for process number k
BaseName(k) == PROCESSES[k] \o "_" \o "Platform" \o ".csv"

\* the first n names create_output tries from name on
RECURSIVE Chain(_, _, _)
Chain(name, version, n) ==
  IF n = 0 THEN {}
  ELSE {name} \cup Chain(NextName(name, version), version + 1, n - 1)

\* the names of a set that the file system takes
Storable(names) == {n \in names : Len(n) <= NAME_MAX}

\* every name create_output can try from the base name of process k
AllTried(k) == Storable(Chain(BaseName(k), 1, VERSION_LIMIT - 1))

\* output directories: for each process none or all of the names
\* create_output tries, for the current-skills output also the first one or
\* two of them, and possibly its file with suffix _2
OutputDirs ==
  { a \cup b \cup c \cup x :
      a \in {{}, AllTried(1)},
      b \in {{}, Chain(BaseName(2), 1, 1), Chain(BaseName(2), 1, 2), AllTried(2)},
      c \in {{}, AllTried(3)},
      x \in {{}, {"current_skills_Platform_2.csv"}} }

\* the lists process() would hand over: each is empty or holds one record
OutputLists ==
  { <<m, c, f>> :
      m \in {<<>>, <<[FullName |-> "Ann", MadLibs |-> "Hi"]>>},
      c \in {<<>>, <<[Name |-> "Ann", Category |-> "Cloud", SubCategory |-> "AWS"]>>},
      f \in {<<>>, <<[Name |-> "Ann", Category |-> "Cloud", SubCategory |-> "GCP"]>>} }

\* s without the elements at the places of drop
WithoutPlaces(s, drop) ==
  LET keep == {i \in 1..Len(s) : i \notin drop}
      F[i \in 0..Len(s)] ==
        IF i = 0 THEN <<>> ELSE IF i \in keep THEN Append(F[i - 1], s[i]) ELSE F[i - 1]
  IN  F[Len(s)]

\* s from its last element to its first
Reverse(s) == [i \in 1..Len(s) |-> s[Len(s) + 1 - i]]

\* header rows of a mad-libs survey: the expected columns with up to two of
\* them missing, in the order of COLUMNS or reversed, possibly after an ID
\* column and before a repeated "Your Name" column
MadHeaders ==
  LET some == {WithoutPlaces(COLUMNS, drop) :
                 drop \in {d \in SUBSET (1..Len(COLUMNS)) : Cardinality(d) <= 2}}
  IN  some \cup {Reverse(h) : h \in some} \cup {<<"ID">> \o h \o <<"Your Name">> : h \in some}

\* the answer a respondent gives in the column at (1-based) place i
Answer(i) == "answer" \o ToString(i)

\* data rows of a mad-libs survey: a cell for every column, the last cell
\* missing, or no cell at all
MadRows(hrow) ==
  LET full == [i \in 1..Len(hrow) |-> Answer(i)]
  IN  {full, SubSeq(full, 1, Len(full) - 1), <<>>}

\* the cells after the identity columns of a survey with all three parts
RunPool == << SelfHeader(" ", "Cloud", "AWS"), TeamHeader(" ", "Cloud", "AWS"),
              UseHeader("Cloud"), LearnHeader("Cloud"), "Your Name" >>

\* header rows of such a survey: any of those cells may be missing, and so
\* may the Classification Level column
RunHeaders ==
  { i \o WithoutPlaces(RunPool, drop) :
      i \in IdParts \cup {<<"ID", "Name", "What team are you on?">>},
      drop \in SUBSET (1..Len(RunPool)) }

-----------------------------------------------------------------------------
(* The state machine: the functions of devops_skills_analysis.py called in  *)
(* the order process() calls them (header row first, then data rows); an    *)
(* error a function raises propagates and ends the run.                     *)

NoTables ==
  /\ COMMON_COL_MAPPING = <<>>
  /\ CUR_COL_MAPPING = <<>>
  /\ FUT_COL_MAPPING = <<>>
  /\ FUT_COLS = <<>>
  /\ COL_MAPPING = <<>>

InitRun(headers, mappings) ==
  /\ header \in headers
  /\ mapping \in mappings
  /\ row = <<>>
  /\ arg = ""
  /\ NoTables
  /\ fs = {}
  /\ op = ""
  /\ ret = [err |-> "", rows |-> <<>>]
  /\ done = {}
  /\ pc = "header"

\* the current-skills runs: the identity columns followed by up to MaxSkillCols
\* cells of CurPool, under each mapping of CurMappings; or followed by both
\* questions for Cloud/AWS and for Cloud/GCP, pair by pair or the team-need
\* questions first, under each of these mappings and under one that declares
\* both pairs and a pair under an identity column name
InitCur ==
  \/ InitRun({i \o t : i \in IdParts, t \in SeqsUpTo(CurPool, MaxSkillCols)}, CurMappings)
  \/ InitRun({i \o t : i \in IdParts,
                       t \in { << SelfHeader(" ", "Cloud", "AWS (examples: EC2, S3)"),
                                  TeamHeader(" ", "Cloud", "AWS"),
                                  SelfHeader(" ", "Cloud", "GCP"),
                                  TeamHeader(" ", "Cloud", "GCP") >>,
                               << TeamHeader(" ", "Cloud", "GCP"),
                                  TeamHeader(" ", "Cloud", "AWS"),
                                  SelfHeader(" ", "Cloud", "GCP"),
                                  SelfHeader(" ", "Cloud", "AWS") >> }},
             CurMappings \cup {<<Entry("Cloud", <<"AWS", "GCP">>), Entry("Name", <<"AWS">>)>>})

InitFut == InitRun({i \o t : i \in IdParts, t \in SeqsUpTo(FutPool, MaxSkillCols)}, FutMappings)

InitCommon == InitRun(SeqsUpTo(IdPool, MaxIdCols), {<<Entry("Cloud", <<"AWS">>)>>})

InitCall(args) ==
  /\ arg \in args
  /\ header = <<>>
  /\ mapping = <<>>
  /\ row = <<>>
  /\ NoTables
  /\ fs = {}
  /\ op = ""
  /\ ret = <<>>
  /\ done = {}
  /\ pc = "call"

\* the last three cells hold a vertical tab before the parenthesis, a vertical
\* tab alone between two ";", and a name between the separators FS and US
InitParse ==
  InitCall(StrsUpTo(ParseAlphabet, MaxStrLen) \cup FreeTexts
             \cup {"AWS(EC2)", "a;;b", "A;"})

InitRows ==
  InitCall({[use_li |-> u, learn_li |-> l] :
              u \in SeqsUpTo(Names, MaxListLen), l \in SeqsUpTo(Names, MaxListLen)})

\* a run of main() up to process(): the files that exist, the content of the
\* config file and the content of the mapping file
InitConfig ==
  /\ arg \in {[config |-> c, map_info |-> m] :
                c \in {Undecodable} \cup {Json(x) : x \in Configs}, m \in MapInfos}
  /\ fs \in SUBSET {CONFIG_PATH, "survey.csv", "teams.json"}
  /\ header = <<>>
  /\ mapping = <<>>
  /\ row = <<>>
  /\ NoTables
  /\ op = ""
  /\ ret = [err |-> "", val |-> <<>>]
  /\ done = {}
  /\ pc = "config"

ParseConfig ==
  /\ pc = "config"
  /\ ret' = parse_config(fs, CONFIG_PATH, arg.config)
  /\ pc' = IF ret'.err # "" THEN "halt" ELSE "load"
  /\ op' = "parse_config"
  /\ UNCHANGED <<inputs, tables, fs, done>>

LoadConfigValues ==
  /\ pc = "load"
  /\ ret' = load_config_values(fs, ret.val, arg.map_info)
  /\ pc' = IF ret'.err # "" THEN "halt" ELSE "process"
  /\ op' = "load_config_values"
  /\ UNCHANGED <<inputs, tables, fs, done>>

\* the end of main(): the output directory and the lists to write
InitFiles ==
  /\ fs \in OutputDirs
  /\ arg \in {[outputs |-> o, before |-> {}, filename |-> ""] : o \in OutputLists}
  /\ header = <<>>
  /\ mapping = <<>>
  /\ row = <<>>
  /\ NoTables
  /\ op = ""
  /\ ret = [err |-> ""]
  /\ done = {}
  /\ pc = "write"

\* create_output on one of the lists; arg.before keeps the directory as it was
CreateOutput ==
  /\ pc = "write"
  /\ \E k \in 1..3 :
       LET r == create_output(fs, arg.outputs[k], BaseName(k))
       IN  /\ arg' = [arg EXCEPT !.before = fs, !.filename = BaseName(k)]
           /\ ret' = [err |-> r.err, failed |-> r.failed, filename |-> r.filename]
           /\ fs' = r.files
  /\ pc' = "halt"
  /\ op' = "create_output"
  /\ UNCHANGED <<header, mapping, row, tables, done>>

\* write_files on the three lists
WriteFiles ==
  /\ pc = "write"
  /\ LET r == write_files(fs, arg.outputs, "Platform")
     IN  /\ arg' = [arg EXCEPT !.before = fs]
         /\ ret' = [err |-> r.err, written |-> r.written, warnings |-> r.warnings]
         /\ fs' = r.files
  /\ pc' = "halt"
  /\ op' = "write_files"
  /\ UNCHANGED <<header, mapping, row, tables, done>>

InitMad == InitRun(MadHeaders, {<<>>})

InitSurvey == InitRun(RunHeaders, {<<Entry("Cloud", <<"AWS">>)>>,
                                   <<Entry("Cloud", <<"AWS">>), Entry("Name", <<"AWS">>)>>})

\* map_cols on the header row; ret.rows holds the names it reports as missing
MapCols ==
  /\ pc = "header"
  /\ "mad" \notin done
  /\ LET r == map_cols(header, COL_MAPPING)
     IN  /\ COL_MAPPING' = r.colmap
         /\ ret' = [err |-> r.err, rows |-> r.missing]
  /\ op' = "map_cols"
  /\ done' = done \cup {"mad"}
  /\ UNCHANGED <<inputs, COMMON_COL_MAPPING, CUR_COL_MAPPING, FUT_COL_MAPPING, FUT_COLS,
                 fs, pc>>

\* create on a frame of text cells whose columns are those of the header row,
\* no two of the same name: the frame has no row, one row of answers, or that
\* row and a row of empty cells.  A caller may call it again, on a path that
\* is new or on the path just written.
Create ==
  /\ pc \in {"header", "created"}
  /\ done = {}
  /\ \A i, j \in 1..Len(header) : header[i] = header[j] => i = j
  /\ \E n \in 0..2 : \E output_csv_file \in {"mad_libs.csv", "bios.csv"} :
       LET df_rows == SubSeq(<< [i \in 1..Len(header) |-> Answer(i)],
                                [i \in 1..Len(header) |-> ""] >>, 1, n)
           r == create(header, df_rows, output_csv_file, fs)
       IN  /\ arg' = [df |-> df_rows, output_csv_file |-> output_csv_file, before |-> fs]
           /\ ret' = [err |-> r.err, rows |-> r.rows]
           /\ fs' = r.files
  /\ pc' = "created"
  /\ op' = "create"
  /\ UNCHANGED <<header, mapping, row, tables, done>>

RowToMadlib ==
  /\ pc \in {"header", "rows"}
  /\ "mad" \in done
  /\ \E r \in MadRows(header) :
       /\ row' = r
       /\ ret' = row_to_madlib(r, COL_MAPPING)
  /\ pc' = IF ret'.err # "" THEN "halt" ELSE "rows"
  /\ op' = "row_to_madlib"
  /\ UNCHANGED <<header, mapping, arg, tables, fs, done>>

SetCurHeaders ==
  /\ pc = "header"
  /\ "cur" \notin done
  /\ LET r == set_cur_headers(header, mapping, CUR_COL_MAPPING, COMMON_COL_MAPPING)
     IN  /\ CUR_COL_MAPPING' = r.cur
         /\ COMMON_COL_MAPPING' = r.common
         /\ ret' = [err |-> r.err, rows |-> <<>>]
         /\ pc' = IF r.err # "" THEN "halt" ELSE pc
  /\ op' = "set_cur_headers"
  /\ done' = IF ret'.err # "" THEN done ELSE done \cup {"cur"}
  /\ UNCHANGED <<inputs, FUT_COL_MAPPING, FUT_COLS, COL_MAPPING, fs>>

SetFutHeaders ==
  /\ pc = "header"
  /\ "fut" \notin done
  /\ LET r == set_fut_headers(header, mapping, FUT_COL_MAPPING, FUT_COLS, COMMON_COL_MAPPING)
     IN  /\ FUT_COL_MAPPING' = r.fut
         /\ FUT_COLS' = r.cols
         /\ COMMON_COL_MAPPING' = r.common
         /\ ret' = [err |-> r.err, rows |-> <<>>]
         /\ pc' = IF r.err # "" THEN "halt" ELSE pc
  /\ op' = "set_fut_headers"
  /\ done' = IF ret'.err # "" THEN done ELSE done \cup {"fut"}
  /\ UNCHANGED <<inputs, CUR_COL_MAPPING, COL_MAPPING, fs>>

RowToCurSkills ==
  /\ pc \in {"header", "rows"}
  /\ "cur" \in done
  /\ \E r \in DataRows(header, Levels) :
       /\ row' = r
       /\ ret' = row_to_cur_skills(r, COMMON_COL_MAPPING, CUR_COL_MAPPING)
  /\ pc' = IF ret'.err # "" THEN "halt" ELSE "rows"
  /\ op' = "row_to_cur_skills"
  /\ UNCHANGED <<header, mapping, arg, tables, fs, done>>

\* variant of RowToFutureSkills that empties FUT_COLS once the row is reshaped
RowToFutureSkillsConsuming ==
  /\ pc \in {"header", "rows"}
  /\ "fut" \in done
  /\ \E r \in DataRows(header, FreeTexts) :
       /\ row' = r
       /\ ret' = row_to_future_skills(r, COMMON_COL_MAPPING, FUT_COL_MAPPING, FUT_COLS)
  /\ pc' = IF ret'.err # "" THEN "halt" ELSE "rows"
  /\ op' = "row_to_future_skills"
  /\ FUT_COLS' = <<>>
  /\ UNCHANGED <<header, mapping, arg, COMMON_COL_MAPPING, CUR_COL_MAPPING, FUT_COL_MAPPING,
                 COL_MAPPING, fs, done>>

RowToFutureSkills ==
  /\ pc \in {"header", "rows"}
  /\ "fut" \in done
  /\ \E r \in DataRows(header, FreeTexts) :
       /\ row' = r
       /\ ret' = row_to_future_skills(r, COMMON_COL_MAPPING, FUT_COL_MAPPING, FUT_COLS)
  /\ pc' = IF ret'.err # "" THEN "halt" ELSE "rows"
  /\ op' = "row_to_future_skills"
  /\ UNCHANGED <<header, mapping, arg, tables, fs, done>>

\* the surveys handed to process(): the header row with one data row whose
\* level cells hold "Guru", or with two data rows whose level cells hold
\* "Expert" and "None"
Surveys(hrow) ==
  {<<hrow>> \o <<g>> : g \in AlignedRows(hrow, {"Guru"})}
    \cup {<<hrow>> \o <<e, n>> : e \in AlignedRows(hrow, {"Expert"}),
                                 n \in AlignedRows(hrow, {"None"})}

\* the process selections of a run configuration
Selections == {PROCESSES, <<"current_skills">>}

\* process() on a survey, before any other function touched the tables
\* the state after process() ended as r: what it raised or returned, and the
\* tables as it left them
ProcessEnds(processes, in_rows, r) ==
  /\ arg' = [processes |-> processes, in_rows |-> in_rows]
  /\ ret' = [err |-> r.err, rows |-> r.rows]
  /\ COMMON_COL_MAPPING' = r.g.common
  /\ CUR_COL_MAPPING' = r.g.cur
  /\ FUT_COL_MAPPING' = r.g.fut
  /\ FUT_COLS' = r.g.cols
  /\ COL_MAPPING' = r.g.colmap

Process ==
  /\ pc = "header"
  /\ done = {}
  /\ \E processes \in Selections : \E in_rows \in Surveys(header) :
       ProcessEnds(processes, in_rows, process_from(Globals, processes, in_rows, mapping))
  /\ pc' = "halt"
  /\ op' = "process"
  /\ UNCHANGED <<header, mapping, row, fs, done>>

StrToSubcategoryList ==
  /\ pc = "call"
  /\ op = ""
  /\ ret' = str_to_subcategory_list(arg)
  /\ op' = "str_to_subcategory_list"
  /\ UNCHANGED <<inputs, tables, fs, done, pc>>

CleanSubcategory ==
  /\ pc = "call"
  /\ op = ""
  /\ ret' = clean_subcategory(arg)
  /\ op' = "clean_subcategory"
  /\ UNCHANGED <<inputs, tables, fs, done, pc>>

TempRow == [Name |-> "Ann", Classification |-> "Band 3", Team |-> "Platform",
            Category |-> "Cloud", SubCategory |-> None, Use |-> None, Learn |-> None]

CreateNewRows ==
  /\ pc = "call"
  /\ op = ""
  /\ ret' = create_new_rows(arg.use_li, arg.learn_li, TempRow)
  /\ op' = "create_new_rows"
  /\ UNCHANGED <<inputs, tables, fs, done, pc>>

NextCur == SetCurHeaders \/ RowToCurSkills \/ Process
NextFut == SetFutHeaders \/ RowToFutureSkills
NextCommon == SetCurHeaders \/ SetFutHeaders
NextParse == StrToSubcategoryList \/ CleanSubcategory
NextRows == CreateNewRows

NextConfig == ParseConfig \/ LoadConfigValues
NextFiles == CreateOutput \/ WriteFiles
NextMad == MapCols \/ RowToMadlib \/ Create
NextSurvey ==
  \/ MapCols \/ SetCurHeaders \/ SetFutHeaders
  \/ RowToMadlib \/ RowToCurSkills \/ RowToFutureSkills
\* the current-skills run
Spec == InitCur /\ [][NextCur]_vars
\* the future-skills run
SpecFut == InitFut /\ [][NextFut]_vars
\* header rows of identity columns under both header functions
SpecCommon == InitCommon /\ [][NextCommon]_vars
\* the subcategory list parser on free-text cells
SpecParse == InitParse /\ [][NextParse]_vars
\* create_new_rows on use and learn lists
SpecRows == InitRows /\ [][NextRows]_vars

\* the run configuration up to the call of process()
SpecConfig == InitConfig /\ [][NextConfig]_vars

\* writing the output files
SpecFiles == InitFiles /\ [][NextFiles]_vars

\* the mad-libs run
SpecMad == InitMad /\ [][NextMad]_vars
\* a survey with mad-libs, current-skills and future-skills columns under all
\* six functions
SpecSurvey == InitSurvey /\ [][NextSurvey]_vars

-----------------------------------------------------------------------------
(* Vocabulary of the properties, stated on the inputs and not through the  *)
(* operators above.                                                        *)

OtherNames == {"Name", "Classification Level", "What team are you on?"}

KnownLevels == {"None", "Novice", "Intermediate", "Advanced", "Expert", "N/A"}

LevelPairs == { <<"None", PyInt(0)>>, <<"Novice", PyInt(1)>>, <<"Intermediate", PyInt(2)>>,
                <<"Advanced", PyInt(3)>>, <<"Expert", PyInt(4)>>, <<"N/A", PyStr("N/A")>> }

AllSpace(s) == \A i \in 1..Len(s) : Char(s, i) \in Whitespace

Trimmed(s) == s = "" \/ (Char(s, 1) \notin Whitespace /\ Char(s, Len(s)) \notin Whitespace)

\* S is t without its leading and trailing whitespace
TrimsTo(t, S) ==
  /\ Trimmed(S)
  /\ \E i \in 1..(Len(t) + 1) : \E j \in (i - 1)..Len(t) :
       /\ SubSeq(t, i, j) = S
       /\ AllSpace(SubSeq(t, 1, i - 1))
       /\ AllSpace(SubSeq(t, j + 1, Len(t)))

\* t up to its first "("
BeforeParen(t) ==
  IF \E i \in 1..Len(t) : Char(t, i) = "("
    THEN SubSeq(t, 1, (CHOOSE i \in 1..Len(t) :
                         Char(t, i) = "(" /\ \A j \in 1..(i - 1) : Char(t, j) # "(") - 1)
    ELSE t

\* S is the cleaned form of t: parenthetical examples cut off, then trimmed
CleansTo(t, S) == TrimsTo(BeforeParen(t), S)

\* cell is the self-level question for category C with a subcategory text that
\* cleans to S (one character separates the question from the category, and
\* the category may be surrounded by whitespace)
IsSelfTemplate(cell, C, S) ==
  LET n == Len(SELF_PREFIX)
  IN  /\ StartsWith(cell, SELF_PREFIX)
      /\ \E k \in (n + 2)..(Len(cell) - 1) :
           /\ SubSeq(cell, k, k + 1) = "?."
           /\ TrimsTo(SubSeq(cell, n + 2, k - 1), C)
           /\ CleansTo(SubSeq(cell, k + 2, Len(cell)), S)

\* cell is the team-need question for category C and a subcategory text that cleans to S
IsTeamTemplate(cell, C, S) ==
  LET n == Len(TEAM_PREFIX)
      t == Len(TEAM_TAIL)
  IN  /\ StartsWith(cell, TEAM_PREFIX)
      /\ \E m \in (n + 3)..(Len(cell) - t + 1) :
           /\ SubSeq(cell, m, m + t - 1) = TEAM_TAIL
           /\ TrimsTo(SubSeq(cell, n + 2, m - 2), C)
           /\ CleansTo(SubSeq(cell, m + t, Len(cell)), S)

\* cell has the shape of a self-level or team-need question, whatever it names
IsSkillQuestion(cell) ==
  \/ /\ StartsWith(cell, SELF_PREFIX)
     /\ \E k \in (Len(SELF_PREFIX) + 2)..(Len(cell) - 1) : SubSeq(cell, k, k + 1) = "?."
  \/ /\ StartsWith(cell, TEAM_PREFIX)
     /\ \E m \in (Len(TEAM_PREFIX) + 3)..(Len(cell) - Len(TEAM_TAIL) + 1) :
          SubSeq(cell, m, m + Len(TEAM_TAIL) - 1) = TEAM_TAIL

\* the (category, subcategory) pairs of a team mapping
MappingPairs(map) ==
  UNION { {<<map[i].k, map[i].v[j]>> : j \in 1..Len(map[i].v)} : i \in 1..Len(map) }

\* the pairs the current-skills reshaper reports: identity names are no categories
ReportedPairs == {p \in MappingPairs(mapping) : p[1] \notin OtherNames}

\* the recorded positions of a pair of the mapping
Pos(p) == DictGet(DictGet(CUR_COL_MAPPING, p[1]), p[2])

\* the 1-based places of the header cells asking about pair p
SelfCells(p) ==
  {i \in 1..Len(header) : header[i] \notin OtherNames /\ IsSelfTemplate(header[i], p[1], p[2])}
TeamCells(p) ==
  {i \in 1..Len(header) : header[i] \notin OtherNames /\ IsTeamTemplate(header[i], p[1], p[2])}

\* the records of ret for pair p
RecordsOf(p) ==
  {i \in 1..Len(ret.rows) : ret.rows[i].Category = p[1] /\ ret.rows[i].SubCategory = p[2]}

\* position index is set and holds a cell of the data row
Readable(index) == index # None /\ index < Len(row)

\* every cell row_to_cur_skills needs is there and holds a level it knows
CurReadable ==
  /\ \A name \in OtherNames :
       DictHas(COMMON_COL_MAPPING, name) /\ Readable(DictGet(COMMON_COL_MAPPING, name))
  /\ \A p \in ReportedPairs :
       /\ Readable(Pos(p).SELF) /\ row[Pos(p).SELF + 1] \in KnownLevels \cup {""}
       /\ Readable(Pos(p).TEAM) /\ row[Pos(p).TEAM + 1] \in KnownLevels \cup {""}

\* a cell the reshaper reads as a level holds a text that is no level
BadLevelRead ==
  \E p \in ReportedPairs : \E index \in {Pos(p).SELF, Pos(p).TEAM} :
    Readable(index) /\ row[index + 1] \notin KnownLevels \cup {""}

-----------------------------------------------------------------------------
(* The claims. *)

\* C1 as stated, on the runs where the header row holds every column the
\* mapping needs: for every data row and every (category, subcategory) pair of
\* the team mapping, row_to_cur_skills returns exactly one record with that
\* Category and SubCategory, and no other records.
C1_OneRecordPerMappingPair ==
  (/\ op = "row_to_cur_skills"
   /\ \A name \in OtherNames : DictHas(COMMON_COL_MAPPING, name)
   /\ \A p \in MappingPairs(mapping) : Pos(p).SELF # None /\ Pos(p).TEAM # None) =>
    /\ \A p \in MappingPairs(mapping) : Cardinality(RecordsOf(p)) = 1
    /\ \A i \in 1..Len(ret.rows) :
         <<ret.rows[i].Category, ret.rows[i].SubCategory>> \in MappingPairs(mapping)

\* C1 amended: row_to_cur_skills either raises KeyError, TypeError or
\* IndexError and returns nothing (an identity column is not recorded, a needed
\* SELF or TEAM position is unset or past the row, or a level cell holds an
\* unknown text), or returns exactly one record
\* for each pair of the mapping whose category is not an identity column name,
\* and no other records.
C1_OneRecordPerReportedPair ==
  op = "row_to_cur_skills" =>
    IF CurReadable
      THEN /\ ret.err = ""
           /\ \A p \in ReportedPairs : Cardinality(RecordsOf(p)) = 1
           /\ \A i \in 1..Len(ret.rows) :
                <<ret.rows[i].Category, ret.rows[i].SubCategory>> \in ReportedPairs
      ELSE ret.err \in {"KeyError", "TypeError", "IndexError"} /\ ret.rows = <<>>

\* a row is reshaped into two records, one for Cloud/AWS and one for
\* Cloud/GCP, although the mapping also declares a pair under an identity
\* column name
C1_Witness ==
  /\ op = "row_to_cur_skills"
  /\ ret.err = ""
  /\ ReportedPairs = {<<"Cloud", "AWS">>, <<"Cloud", "GCP">>}
  /\ ReportedPairs # MappingPairs(mapping)
  /\ Len(ret.rows) = 2
  /\ ret.rows[1].SubCategory = "AWS" /\ ret.rows[2].SubCategory = "GCP"
  /\ ret.rows[1].SkillLevelDesc = "Expert" /\ ret.rows[2].TeamNeedDesc = "N/A"

\* a header cell that asks a skill question about a pair the mapping does not declare
Undeclared(cell) ==
  /\ cell \notin OtherNames
  /\ IsSkillQuestion(cell)
  /\ \A p \in MappingPairs(mapping) :
       ~IsSelfTemplate(cell, p[1], p[2]) /\ ~IsTeamTemplate(cell, p[1], p[2])

\* cell is the self-level template of the specification, instantiated with
\* category C as it stands and a subcategory text that cleans to S
IsSelfLiteral(cell, C, S) ==
  LET question == SELF_PREFIX \o " " \o C \o "?."
  IN  /\ StartsWith(cell, question)
      /\ CleansTo(SubSeq(cell, Len(question) + 1, Len(cell)), S)

\* cell is the team-need template of the specification, instantiated likewise
IsTeamLiteral(cell, C, S) ==
  LET question == TEAM_PREFIX \o " " \o C \o " " \o TEAM_TAIL
  IN  /\ StartsWith(cell, question)
      /\ CleansTo(SubSeq(cell, Len(question) + 1, Len(cell)), S)

C2_Witness ==
  /\ op = "set_cur_headers"
  /\ "cur" \in done
  /\ <<"Cloud", "AWS">> \in MappingPairs(mapping)
  /\ Pos(<<"Cloud", "AWS">>).SELF # None
  /\ header[Pos(<<"Cloud", "AWS">>).SELF + 1] = SelfHeader(" ", "Cloud", "AWS (examples: EC2, S3)")
  /\ Pos(<<"Cloud", "AWS">>).TEAM = None

\* the 0-based position of the first cell of hrow that is name
FirstIndex(hrow, name) ==
  (CHOOSE i \in 1..Len(hrow) : hrow[i] = name /\ \A j \in 1..(i - 1) : hrow[j] # name) - 1

\* C3: after set_cur_headers or set_fut_headers, every identity column name
\* that occurs in the header row is mapped to the position of its first occurrence.
C3_FirstOccurrenceRecorded ==
  done # {} =>
    \A name \in OtherNames :
      In(header, name) =>
        /\ DictHas(COMMON_COL_MAPPING, name)
        /\ DictGet(COMMON_COL_MAPPING, name) = FirstIndex(header, name)

\* C4: a header cell that matches a skill question whose category or cleaned
\* subcategory the mapping does not declare is a silent no-op of
\* set_cur_headers: no error is raised and the remaining cells are processed.
C4_UndeclaredIsNoOp ==
  (op = "set_cur_headers" /\ \E i \in 1..Len(header) : Undeclared(header[i])) =>
    ret.err = "" /\ "cur" \in done

\* C5: row_to_future_skills never returns two records with the same
\* (Name, Category, SubCategory).
C5_NoDuplicateTriples ==
  op = "row_to_future_skills" =>
    \A i, j \in 1..Len(ret.rows) :
      i # j => <<ret.rows[i].Name, ret.rows[i].Category, ret.rows[i].SubCategory>>
               # <<ret.rows[j].Name, ret.rows[j].Category, ret.rows[j].SubCategory>>

\* the use cell and the learn cell of Cloud both hold "GCP;AWS;GCP", and two
\* records are returned
C5_Witness ==
  /\ op = "row_to_future_skills"
  /\ ret.err = ""
  /\ Len(ret.rows) = 2
  /\ row[DictGet(FUT_COL_MAPPING, "Cloud").USE + 1] = "GCP;AWS;GCP"
  /\ row[DictGet(FUT_COL_MAPPING, "Cloud").LEARN + 1] = "GCP;AWS;GCP"

\* C6: a subcategory that occurs in both the use list and the learn list gets
\* exactly one record, with Use = 1 and Learn = 1.
C6_BothListsOneRecord ==
  op = "create_new_rows" =>
    \A s \in Names :
      (In(arg.use_li, s) /\ In(arg.learn_li, s)) =>
        /\ Cardinality({i \in 1..Len(ret) : ret[i].SubCategory = s}) = 1
        /\ \A i \in 1..Len(ret) :
             ret[i].SubCategory = s => ret[i].Use = 1 /\ ret[i].Learn = 1

\* AWS is listed twice for use and once for learning
C6_Witness ==
  /\ op = "create_new_rows"
  /\ arg.use_li = <<"AWS", "GCP", "AWS">>
  /\ arg.learn_li = <<"", "AWS">>
  /\ Len(ret) = 3

\* C7: no element of the list str_to_subcategory_list returns holds a "(" or
\* starts or ends with whitespace.
C7_ElementsClean ==
  op = "str_to_subcategory_list" =>
    \A i \in 1..Len(ret) :
      /\ \A k \in 1..Len(ret[i]) : Char(ret[i], k) # "("
      /\ Trimmed(ret[i])

\* a cell with a parenthesis and surrounding blanks yields a non-empty name
C7_Witness ==
  /\ op = "str_to_subcategory_list"
  /\ arg = " a (;"
  /\ ret = <<"a">>

\* the places that bound the fragments of s: before it, its ";", after it
Seps(s) == {0} \cup {i \in 1..Len(s) : Char(s, i) = ";"} \cup {Len(s) + 1}
NextSep(s, a) == CHOOSE b \in Seps(s) : b > a /\ \A c \in Seps(s) : c > a => b <= c
\* the separators a non-empty fragment follows
FragStarts(s) == {a \in Seps(s) \ {Len(s) + 1} : NextSep(s, a) > a + 1}

\* C8: str_to_subcategory_list returns, in input order and keeping duplicates,
\* the cleaned forms of exactly the non-empty fragments between the ";" of its
\* input: nothing for the empty string, nothing for a trailing ";".
C8_NonEmptyFragmentsInOrder ==
  op = "str_to_subcategory_list" =>
    /\ Len(ret) = Cardinality(FragStarts(arg))
    /\ \A a \in FragStarts(arg) :
         CleansTo(SubSeq(arg, a + 1, NextSep(arg, a) - 1),
                  ret[Cardinality({b \in FragStarts(arg) : b <= a})])
    /\ arg = "" => ret = <<>>
    /\ arg = "AWS (EC2); Terraform;" => ret = <<"AWS", "Terraform">>

\* the scenario of the trailing ";"
C8_Witness ==
  /\ op = "str_to_subcategory_list"
  /\ arg = "AWS (EC2); Terraform;"
  /\ ret = <<"AWS", "Terraform">>

\* C9: in every record of row_to_cur_skills each (Desc, Value) pair is a pair
\* of the level table, and an empty cell gives Desc "N/A" with Value "N/A".
C9_LevelPairs ==
  (op = "row_to_cur_skills" /\ ret.err = "") =>
    \A i \in 1..Len(ret.rows) :
      LET rec == ret.rows[i]
          pos == Pos(<<rec.Category, rec.SubCategory>>)
      IN  /\ <<rec.SkillLevelDesc, rec.SkillLevelValue>> \in LevelPairs
          /\ <<rec.TeamNeedDesc, rec.TeamNeedValue>> \in LevelPairs
          /\ row[pos.SELF + 1] = "" =>
               rec.SkillLevelDesc = "N/A" /\ rec.SkillLevelValue = PyStr("N/A")
          /\ row[pos.TEAM + 1] = "" =>
               rec.TeamNeedDesc = "N/A" /\ rec.TeamNeedValue = PyStr("N/A")

\* a record from an empty self-level cell and an "Expert" team-need cell
C9_Witness ==
  /\ op = "row_to_cur_skills"
  /\ ret.err = ""
  /\ \E i \in 1..Len(ret.rows) :
       /\ row[Pos(<<ret.rows[i].Category, ret.rows[i].SubCategory>>).SELF + 1] = ""
       /\ ret.rows[i].SkillLevelValue = PyStr("N/A")
       /\ ret.rows[i].TeamNeedDesc = "Expert"
       /\ ret.rows[i].TeamNeedValue = PyInt(4)

\* C10: a level cell with a non-empty text that is no level makes
\* row_to_cur_skills raise instead of returning records, the error ends the
\* run, and process() returns no output lists.
C10_UnknownLevelIsFatal ==
  /\ (op = "row_to_cur_skills" /\ BadLevelRead) =>
       (ret.err # "" /\ ret.rows = <<>> /\ pc = "halt")
  /\ op = "process" => (ret.err # "" /\ ret.rows = <<>>)

\* the only thing wrong with the row is the text "Guru" in a level cell
C10_Witness ==
  /\ op = "row_to_cur_skills"
  /\ BadLevelRead
  /\ ret.err = "KeyError"
  /\ \A name \in OtherNames : DictHas(COMMON_COL_MAPPING, name)
  /\ \A p \in ReportedPairs : Readable(Pos(p).SELF) /\ Readable(Pos(p).TEAM)

\* the concatenation of the sequences of a sequence
RECURSIVE Flatten(_)
Flatten(ss) == IF ss = <<>> THEN <<>> ELSE Head(ss) \o Flatten(Tail(ss))

\* the data rows of the survey handed to process()
DataRowsOf(in_rows) == Tail(in_rows)

\* what the functions a selection runs give on the survey of arg, each on
\* fresh tables: the header functions on row 0, the reshapers on each data row
SurveyCur ==
  LET h == set_cur_headers(arg.in_rows[1], mapping, <<>>, <<>>)
      d == DataRowsOf(arg.in_rows)
  IN  [hdr |-> h, out |-> [i \in 1..Len(d) |-> row_to_cur_skills(d[i], h.common, h.cur)]]
SurveyFut ==
  LET c == IF In(arg.processes, "current_skills") THEN SurveyCur.hdr.common ELSE <<>>
      h == set_fut_headers(arg.in_rows[1], mapping, <<>>, <<>>, c)
      d == DataRowsOf(arg.in_rows)
  IN  [hdr |-> h,
       out |-> [i \in 1..Len(d) |-> row_to_future_skills(d[i], h.common, h.fut, h.cols)]]
SurveyMad ==
  LET h == map_cols(arg.in_rows[1], <<>>)
      d == DataRowsOf(arg.in_rows)
  IN  [hdr |-> h, out |-> [i \in 1..Len(d) |-> row_to_madlib(d[i], h.colmap)]]

\* the records of the data rows, row after row, for a selected process
InRowOrder(survey, name) ==
  IF In(arg.processes, name)
    THEN Flatten([i \in 1..Len(survey.out) |-> survey.out[i].rows])
    ELSE <<>>

\* no selected function raises on the survey
SurveyReshapes(survey, name) ==
  In(arg.processes, name) =>
    survey.hdr.err = "" /\ \A i \in 1..Len(survey.out) : survey.out[i].err = ""

\* C11: on a survey of two or more data rows, each of which the selected
\* reshapers accept and turn into records, process() returns the three lists,
\* and each list holds the records of the data rows in row order, each row's
\* records once.
C11_RowOrderPreserved ==
  (/\ op = "process"
   /\ Len(DataRowsOf(arg.in_rows)) >= 2
   /\ \A i \in 1..Len(SurveyCur.out) : SurveyCur.out[i].rows # <<>>
   /\ SurveyReshapes(SurveyMad, "mad_libs")
   /\ SurveyReshapes(SurveyCur, "current_skills")
   /\ SurveyReshapes(SurveyFut, "future_skills")) =>
    /\ ret.err = ""
    /\ ret.rows = << InRowOrder(SurveyMad, "mad_libs"),
                     InRowOrder(SurveyCur, "current_skills"),
                     InRowOrder(SurveyFut, "future_skills") >>

\* the run configuration has an "input" section with its three keys
ValidInput(conf) ==
  /\ DictHas(conf, "input")
  /\ \A key \in {"csv_file", "mapping_file", "team_name"} : DictHas(DictGet(conf, "input"), key)

\* C12: a configuration file with a valid "input" section and no "processes"
\* key is accepted by parse_config, and load_config_values then selects all
\* three processes.
C12_ProcessesDefaultToAll ==
  /\ (/\ op = "parse_config"
      /\ CONFIG_PATH \in fs
      /\ arg.config.decodes
      /\ ValidInput(arg.config.obj)
      /\ ~DictHas(arg.config.obj, "processes")) =>
       ret.err = "" /\ pc = "load"
  /\ (op = "load_config_values" /\ ret.err = "" /\ ~DictHas(arg.config.obj, "processes")) =>
       ret.processes = PROCESSES

\* B_k.csv for the base name B.csv
Numbered(base, k) ==
  SubSeq(base, 1, Len(base) - 4) \o "_" \o ToString(k) \o ".csv"

\* the name the data should go to: the base name when it is free, else the
\* numbered name with the smallest free number
FreeName(files, base) ==
  IF base \notin files THEN base
  ELSE Numbered(base, CHOOSE k \in 1..VERSION_LIMIT :
                        /\ Numbered(base, k) \notin files
                        /\ \A j \in 1..(k - 1) : Numbered(base, j) \in files)

\* C13, in a directory that holds at most B.csv and B_1.csv: create_output
\* writes to the base name B.csv when no such file exists, and otherwise to
\* the numbered name with the smallest free number; with
\* current_skills_Platform.csv and current_skills_Platform_1.csv in place the
\* data goes to current_skills_Platform_2.csv.
C13_SmallestFreeNumber ==
  (/\ op = "create_output"
   /\ arg.outputs[CHOOSE k \in 1..3 : BaseName(k) = arg.filename] # <<>>
   /\ arg.before \subseteq {arg.filename, Numbered(arg.filename, 1)}) =>
    /\ ret.err = "" /\ ~ret.failed
    /\ ret.filename = FreeName(arg.before, arg.filename)
    /\ fs = arg.before \cup {FreeName(arg.before, arg.filename)}

\* no name create_output can try for the output of process k is free
Exhausted(k) == AllTried(k) \subseteq arg.before

\* C14: when the search for a free file name is exhausted for one output that
\* has records, write_files raises nothing, and every other output that has
\* records and a free name is written to a new file.
C14_FailedOutputIsSkipped ==
  (op = "write_files" /\ \E k \in 1..3 : arg.outputs[k] # <<>> /\ Exhausted(k)) =>
    /\ ret.err = ""
    /\ \A j \in 1..3 :
         (arg.outputs[j] # <<>> /\ ~Exhausted(j)) =>
           \E i \in 1..Len(ret.written) :
             /\ ret.written[i].process = PROCESSES[j]
             /\ ret.written[i].file \in fs \ arg.before

\* the elements of s in the order of their first occurrence
RECURSIVE FirstSeen(_)
FirstSeen(s) ==
  IF s = <<>> THEN <<>>
  ELSE LET front == SubSeq(s, 1, Len(s) - 1)
           last == s[Len(s)]
       IN  IF \E i \in 1..Len(front) : front[i] = last
             THEN FirstSeen(front)
             ELSE Append(FirstSeen(front), last)

\* C15: the SubCategory sequence of the records of create_new_rows is the use
\* list followed by the learn list with every repeated element removed, and a
\* record has Use = 1 exactly when its subcategory is in the use list and
\* Learn = 1 exactly when it is in the learn list, otherwise 0.
C15_FirstSeenOrderAndFlags ==
  op = "create_new_rows" =>
    /\ [i \in 1..Len(ret) |-> ret[i].SubCategory] = FirstSeen(arg.use_li \o arg.learn_li)
    /\ \A i \in 1..Len(ret) :
         /\ ret[i].Use = (IF \E j \in 1..Len(arg.use_li) : arg.use_li[j] = ret[i].SubCategory
                            THEN 1 ELSE 0)
         /\ ret[i].Learn = (IF \E j \in 1..Len(arg.learn_li) : arg.learn_li[j] = ret[i].SubCategory
                              THEN 1 ELSE 0)

\* GCP is only to be learned, AWS is in both lists, the empty name only used
C15_Witness ==
  /\ op = "create_new_rows"
  /\ arg.use_li = <<"AWS", "", "AWS">>
  /\ arg.learn_li = <<"GCP", "AWS", "GCP">>
  /\ Len(ret) = 3
  /\ ret[3].SubCategory = "GCP" /\ ret[3].Use = 0 /\ ret[3].Learn = 1

-----------------------------------------------------------------------------
\* the three functions that reshape a data row
Reshapers == {"row_to_madlib", "row_to_cur_skills", "row_to_future_skills"}

\* C16: once the header row is processed, no reshape of a data row
\* (row_to_madlib, row_to_cur_skills, row_to_future_skills), whether it returns
\* records or raises, changes COMMON_COL_MAPPING, CUR_COL_MAPPING,
\* FUT_COL_MAPPING, FUT_COLS or COL_MAPPING; the tables change only in a step
\* of a header function, taken before any data row
C16_ReshapeLeavesTables ==
  [][ /\ op' \in Reshapers => tables' = tables
      /\ tables' # tables => (pc = "header" /\ op' \notin Reshapers) ]_vars

\* C16: the three header functions have filled all five tables and a data row
\* was reshaped into future-skills records
C16_Witness ==
  /\ done = {"mad", "cur", "fut"}
  /\ COMMON_COL_MAPPING # <<>> /\ CUR_COL_MAPPING # <<>> /\ FUT_COL_MAPPING # <<>>
  /\ FUT_COLS # <<>> /\ COL_MAPPING # <<>>
  /\ op = "row_to_future_skills"
  /\ ret.err = "" /\ ret.rows # <<>>
  /\ pc = "rows"
-----------------------------------------------------------------------------
\* a (category, subcategory) of CUR_COL_MAPPING lacks its SELF or its TEAM
\* position; with named false the categories named like identity columns are
\* left out
CurUnset(named) ==
  \E i \in 1..Len(CUR_COL_MAPPING) :
    /\ named \/ CUR_COL_MAPPING[i].k \notin OtherNames
    /\ \E j \in 1..Len(CUR_COL_MAPPING[i].v) :
         \/ CUR_COL_MAPPING[i].v[j].v.SELF = None
         \/ CUR_COL_MAPPING[i].v[j].v.TEAM = None

\* a category of FUT_COL_MAPPING lacks its USE or its LEARN position
FutUnset ==
  \E i \in 1..Len(FUT_COL_MAPPING) :
    FUT_COL_MAPPING[i].v.USE = None \/ FUT_COL_MAPPING[i].v.LEARN = None

\* an identity column has no position in COMMON_COL_MAPPING
IdentityUnset ==
  \E n \in OtherNames : \A i \in 1..Len(COMMON_COL_MAPPING) : COMMON_COL_MAPPING[i].k # n

\* the reshaper raised and returned no record
Failed == ret.err # "" /\ ret.rows = <<>>

\* C17 as stated: when, after header processing, some (category, subcategory)
\* of the mapping has no SELF or no TEAM position, some category has no USE or
\* no LEARN position, or an identity column was not recorded, the reshaper that
\* needs the position (row_to_cur_skills, row_to_future_skills) raises an error
\* for the data row and returns no record
C17_UnsetPositionIsFatal ==
  /\ (op = "row_to_cur_skills" /\ (CurUnset(TRUE) \/ IdentityUnset)) => Failed
  /\ (op = "row_to_future_skills" /\ (FutUnset \/ IdentityUnset)) => Failed

\* C17 amended: the same, except that row_to_cur_skills skips the categories
\* named like an identity column, so that an unset SELF or TEAM position is an
\* error only under the other categories
C17_UnsetReadPositionIsFatal ==
  /\ (op = "row_to_cur_skills" /\ (CurUnset(FALSE) \/ IdentityUnset)) => Failed
  /\ (op = "row_to_future_skills" /\ (FutUnset \/ IdentityUnset)) => Failed

\* C17: the identity columns are recorded, a pair under a category that is not
\* skipped has its SELF position but no TEAM position, and row_to_cur_skills
\* raised TypeError on a row with a cell in every column
C17_Witness ==
  /\ op = "row_to_cur_skills"
  /\ ~IdentityUnset
  /\ \E i \in 1..Len(CUR_COL_MAPPING) :
       /\ CUR_COL_MAPPING[i].k \notin OtherNames
       /\ \E j \in 1..Len(CUR_COL_MAPPING[i].v) :
            /\ CUR_COL_MAPPING[i].v[j].v.SELF # None
            /\ CUR_COL_MAPPING[i].v[j].v.TEAM = None
  /\ Len(row) = Len(header)
  /\ ret.err = "TypeError" /\ ret.rows = <<>>
  /\ pc = "halt"
-----------------------------------------------------------------------------
\* the names between braces in the template
Placeholders == {TEMPLATE[i].field : i \in 1..Len(TEMPLATE)} \ {""}

\* the expected columns, as a set
Expected == {COLUMNS[i] : i \in 1..Len(COLUMNS)}

\* the header row has a column named col
Found(col) == \E i \in 1..Len(header) : header[i] = col

\* the place of the first column named col
FirstPlace(col) == CHOOSE i \in 1..Len(header) : header[i] = col /\ \A j \in 1..(i - 1) : header[j] # col

\* the data row has a cell under the first column named col
HasCell(col) == Found(col) /\ FirstPlace(col) <= Len(row)

\* the template with every placeholder replaced by the row's cell under the
\* first column of that name
Sentence ==
  LET S[i \in 0..Len(TEMPLATE)] ==
        IF i = 0 THEN ""
        ELSE S[i - 1] \o TEMPLATE[i].lit
               \o (IF TEMPLATE[i].field = "" THEN "" ELSE row[FirstPlace(TEMPLATE[i].field)])
  IN  S[Len(TEMPLATE)]

\* map_cols raised nothing and reported exactly the expected columns the header
\* row lacks
OnlyReports ==
  /\ ret.err = ""
  /\ \A col \in Expected : In(ret.rows, col) <=> ~Found(col)

\* C18 as stated: map_cols never fails on a header row that lacks expected
\* columns, it reports them; afterwards row_to_madlib returns the record
\* {FullName: the row's Name cell, Mad Libs: the substituted sentence} exactly
\* when every placeholder column of the template is in the header row, and
\* otherwise raises an error and returns nothing
C18_RecordIffPlaceholdersFound ==
  /\ op = "map_cols" => OnlyReports
  /\ op = "row_to_madlib" =>
       IF \A p \in Placeholders : Found(p)
         THEN /\ ret.err = ""
              /\ Len(ret.rows) = 1
              /\ HasCell("Name") /\ ret.rows[1].FullName = row[FirstPlace("Name")]
              /\ ret.rows[1].MadLibs = Sentence
         ELSE Failed

\* C18 amended: map_cols never fails and reports the expected columns the
\* header row lacks; row_to_madlib returns a record exactly when every
\* placeholder column is in the header row and the data row has a cell under
\* every expected column the header row has; FullName is the cell under Name,
\* or the empty string when the header row has no Name column, and Mad Libs is
\* the substituted sentence; otherwise it raises (IndexError for a missing
\* cell, else KeyError for a missing placeholder) and returns nothing
C18_RecordIffPlaceholdersAndCells ==
  /\ op = "map_cols" => OnlyReports
  /\ op = "row_to_madlib" =>
       IF \E col \in Expected : Found(col) /\ ~HasCell(col)
         THEN Failed /\ ret.err = "IndexError"
       ELSE IF \E p \in Placeholders : ~Found(p)
         THEN Failed /\ ret.err = "KeyError"
       ELSE /\ ret.err = ""
            /\ Len(ret.rows) = 1
            /\ ret.rows[1].FullName = (IF Found("Name") THEN row[FirstPlace("Name")] ELSE "")
            /\ ret.rows[1].MadLibs = Sentence

\* C18: the header row has every placeholder column but no Name column, and
\* row_to_madlib returned the sentence with an empty FullName
C18_Witness ==
  /\ op = "row_to_madlib"
  /\ \A p \in Placeholders : Found(p)
  /\ ~Found("Name")
  /\ ret.err = "" /\ Len(ret.rows) = 1
  /\ ret.rows[1].FullName = ""
  /\ ret.rows[1].MadLibs = Sentence
  /\ pc = "rows"
====
